---------------------------- MODULE Spec2Model ----------------------------
(***************************************************************************)
(* ledger-import: a CSV export of bank transactions is turned into hledger *)
(* journal entries.  src/src/lib.js holds the amount parser and the        *)
(* formatter, src/src/index.js holds main, the import pipeline with the    *)
(* ".latest" marker file that remembers the last imported row.             *)
(*                                                                         *)
(* A JavaScript string is a sequence of one-character strings, so that     *)
(* trim, toUpperCase, startsWith, padEnd, padStart, replace and            *)
(* JSON.stringify are computed character by character.                     *)
(***************************************************************************)
EXTENDS Integers, Sequences, FiniteSets, TLC

-----------------------------------------------------------------------------
(* Bounds of the model.                                                    *)

\* longest CSV (number of data rows) a run is given
MaxRows == 2
\* number of runs of main on a freshly chosen CSV (each may be repeated once)
MaxRuns == 1
\* longest list of transformers in the rule application model
MaxRules == 3

-----------------------------------------------------------------------------
(* JavaScript strings.                                                     *)

Digits == <<"0", "1", "2", "3", "4", "5", "6", "7", "8", "9">>

DigitSet == {Digits[i] : i \in 1..10}

DigitVal(c) == (CHOOSE i \in 1..10 : Digits[i] = c) - 1

LowerCase == <<"a", "b", "c", "d", "e", "f", "g", "h", "i", "j", "k", "l", "m",
               "n", "o", "p", "q", "r", "s", "t", "u", "v", "w", "x", "y", "z">>

UpperCase == <<"A", "B", "C", "D", "E", "F", "G", "H", "I", "J", "K", "L", "M",
               "N", "O", "P", "Q", "R", "S", "T", "U", "V", "W", "X", "Y", "Z">>

\* the white space String.prototype.trim removes
WhiteSpace == {" ", "\t", "\n", "\r", "nbsp"}

UpperChar(c) ==
  IF \E i \in 1..26 : LowerCase[i] = c
    THEN UpperCase[CHOOSE i \in 1..26 : LowerCase[i] = c]
    ELSE c

toUpperCase(s) == [i \in 1..Len(s) |-> UpperChar(s[i])]

RECURSIVE trimStart(_)
trimStart(s) ==
  IF s # <<>> /\ Head(s) \in WhiteSpace THEN trimStart(Tail(s)) ELSE s

RECURSIVE trimEnd(_)
trimEnd(s) ==
  IF s # <<>> /\ s[Len(s)] \in WhiteSpace
    THEN trimEnd(SubSeq(s, 1, Len(s) - 1))
    ELSE s

trim(s) == trimEnd(trimStart(s))

startsWith(s, p) == Len(s) >= Len(p) /\ SubSeq(s, 1, Len(p)) = p

Spaces(n) == [i \in 1..n |-> " "]

padEnd(s, n) == IF Len(s) >= n THEN s ELSE s \o Spaces(n - Len(s))

padStart(s, n) == IF Len(s) >= n THEN s ELSE Spaces(n - Len(s)) \o s

\* String.prototype.replace with a string pattern of one character: only the
\* first occurrence is replaced
RECURSIVE replaceFirst(_, _, _)
replaceFirst(s, c, d) ==
  IF s = <<>> THEN <<>>
  ELSE IF Head(s) = c THEN <<d>> \o Tail(s)
  ELSE <<Head(s)>> \o replaceFirst(Tail(s), c, d)

Includes(s, p) ==
  \E i \in 1..(Len(s) - Len(p) + 1) : SubSeq(s, i, i + Len(p) - 1) = p

-----------------------------------------------------------------------------
(* JavaScript numbers: NaN, or a sign (so that -0 is kept apart from 0)    *)
(* and a decimal magnitude digits / 10^scale.                              *)

RECURSIVE Pow10(_)
Pow10(k) == IF k = 0 THEN 1 ELSE 10 * Pow10(k - 1)

NaN == [nan |-> TRUE, neg |-> FALSE, digits |-> 0, scale |-> 0]

RECURSIVE Num(_, _, _)
Num(neg, d, s) ==
  IF s > 0 /\ d % 10 = 0 THEN Num(neg, d \div 10, s - 1)
  ELSE [nan |-> FALSE, neg |-> neg, digits |-> d, scale |-> s]

Zero == Num(FALSE, 0, 0)

\* unary minus
Negate(n) == IF n.nan THEN n ELSE [n EXCEPT !.neg = ~@]

\* ToBoolean of a number: NaN, 0 and -0 are falsy
NumberTruthy(n) == ~n.nan /\ n.digits # 0

RECURSIVE DigitsValue(_)
DigitsValue(s) ==
  IF s = <<>> THEN 0
  ELSE 10 * DigitsValue(SubSeq(s, 1, Len(s) - 1)) + DigitVal(s[Len(s)])

AllDigits(s) == \A i \in 1..Len(s) : s[i] \in DigitSet

\* Number(string) for a string without white space, exponent or radix prefix:
\* "" is 0, an optional sign, then digits with at most one "." and at least
\* one digit; anything else is NaN
ToNumber(s) ==
  IF s = <<>> THEN Zero
  ELSE
    LET neg  == Head(s) = "-"
        body == IF Head(s) \in {"-", "+"} THEN Tail(s) ELSE s
        dots == {i \in 1..Len(body) : body[i] = "."}
    IN IF Cardinality(dots) > 1 THEN NaN
       ELSE
         LET dot  == IF dots = {} THEN Len(body) + 1 ELSE CHOOSE i \in dots : TRUE
             int  == SubSeq(body, 1, dot - 1)
             frac == SubSeq(body, dot + 1, Len(body))
         IN IF AllDigits(int) /\ AllDigits(frac) /\ Len(int) + Len(frac) >= 1
              THEN Num(neg, DigitsValue(int \o frac), Len(frac))
              ELSE NaN


RECURSIVE IntToStr(_)
IntToStr(n) ==
  IF n < 10 THEN <<Digits[n + 1]>>
  ELSE IntToStr(n \div 10) \o <<Digits[(n % 10) + 1]>>

\* String(number): the text of ${amount} in a template
NumberToString(n) ==
  IF n.nan THEN <<"N", "a", "N">>
  ELSE
    LET int  == n.digits \div Pow10(n.scale)
        frac == n.digits % Pow10(n.scale)
        fs   == IntToStr(frac)
    IN (IF n.neg /\ n.digits # 0 THEN <<"-">> ELSE <<>>)
       \o IntToStr(int)
       \o (IF n.scale = 0 THEN <<>>
           ELSE <<".">> \o [i \in 1..(n.scale - Len(fs)) |-> "0"] \o fs)

-----------------------------------------------------------------------------
(* Intl.NumberFormat with style "currency" for the locales and currencies  *)
(* of the rule files.                                                      *)

USD == <<"U", "S", "D">>

EUR == <<"E", "U", "R">>

enUS == <<"e", "n", "-", "U", "S">>

deDE == <<"d", "e", "-", "D", "E">>

\* the decimal part of formatter.formatToParts(0)
DecimalMark(locale) == IF locale = deDE THEN "," ELSE "."

GroupMark(locale) == IF locale = deDE THEN "." ELSE ","

\* digit grouping of the integer part, three digits to a group
RECURSIVE GroupDigits(_, _)
GroupDigits(s, sep) ==
  IF Len(s) <= 3 THEN s
  ELSE GroupDigits(SubSeq(s, 1, Len(s) - 3), sep)
       \o <<sep>> \o SubSeq(s, Len(s) - 2, Len(s))

\* the magnitude in hundredths, rounded half away from zero
Hundredths(n) ==
  IF n.scale <= 2 THEN n.digits * Pow10(2 - n.scale)
  ELSE (n.digits + 5 * Pow10(n.scale - 3)) \div Pow10(n.scale - 2)

\* Number.prototype.toLocaleString(locale, {style: "currency", currency})
toLocaleString(n, locale, currency) ==
  LET symbol == IF currency = USD THEN <<"$">>
                ELSE IF currency = EUR THEN <<"euro">>
                ELSE currency
      h      == Hundredths(n)
      cents  == IntToStr(h % 100)
      number == IF n.nan THEN <<"N", "a", "N">>
                ELSE GroupDigits(IntToStr(h \div 100), GroupMark(locale))
                     \o <<DecimalMark(locale)>>
                     \o (IF Len(cents) = 1 THEN <<"0">> ELSE <<>>) \o cents
      sign   == IF ~n.nan /\ n.neg THEN <<"-">> ELSE <<>>
  IN IF locale = deDE
       THEN sign \o number \o <<"nbsp">> \o symbol
       ELSE sign \o symbol \o number

\* a currency code Intl.NumberFormat accepts: three letters
WellFormedCurrency(currency) ==
  /\ Len(currency) = 3
  /\ \A i \in 1..3 : \E j \in 1..26 : currency[i] \in {LowerCase[j], UpperCase[j]}

-----------------------------------------------------------------------------
(* src/src/lib.js                                                          *)

\* a parsed CSV row is an object with string values: a sequence of
\* <<key, value>> pairs in column order
HasKey(o, k) == \E i \in 1..Len(o) : o[i][1] = k

Get(o, k) == o[CHOOSE i \in 1..Len(o) : o[i][1] = k][2]

\* if (tx[k]): the field is there and is not the empty string
FieldTruthy(o, k) == HasKey(o, k) /\ Get(o, k) # <<>>

K_date == <<"d", "a", "t", "e">>

K_posted == <<"p", "o", "s", "t", "e", "d">>

K_description == <<"d", "e", "s", "c", "r", "i", "p", "t", "i", "o", "n">>

K_amount == <<"a", "m", "o", "u", "n", "t">>

K_amount_in == <<"a", "m", "o", "u", "n", "t", "-", "i", "n">>

K_amount_out == <<"a", "m", "o", "u", "n", "t", "-", "o", "u", "t">>

K_balance == <<"b", "a", "l", "a", "n", "c", "e">>

parseCurrencyString(string, locale, currency) ==
  LET decimal    == DecimalMark(locale)
      stripped   == SelectSeq(string, LAMBDA c : c \in DigitSet \cup {"-", decimal})
      normalized == replaceFirst(stripped, decimal, ".")
  IN ToNumber(normalized)

parseAmountNoNegation(tx, locale, currency) ==
  IF FieldTruthy(tx, K_amount)
    THEN parseCurrencyString(Get(tx, K_amount), locale, currency)
  ELSE IF FieldTruthy(tx, K_amount_in)
    THEN parseCurrencyString(Get(tx, K_amount_in), locale, currency)
  ELSE IF FieldTruthy(tx, K_amount_out)
    THEN parseCurrencyString(Get(tx, K_amount_out), locale, currency)
  ELSE Zero

parseAmount(tx, locale, currency) ==
  IF FieldTruthy(tx, K_amount)
    THEN parseCurrencyString(Get(tx, K_amount), locale, currency)
  ELSE IF FieldTruthy(tx, K_amount_in)
    THEN Negate(parseCurrencyString(Get(tx, K_amount_in), locale, currency))
  ELSE IF FieldTruthy(tx, K_amount_out)
    THEN parseCurrencyString(Get(tx, K_amount_out), locale, currency)
  ELSE Zero

currencyString(amount, locale, currency) ==
  IF WellFormedCurrency(currency)
    THEN toLocaleString(amount, locale, currency)
    ELSE NumberToString(amount) \o <<" ">> \o currency

\* width the account names are padded to
AccountWidth == 49

\* width the amounts and the balance are padded to
AmountWidth == 12

\* the three lines of a ledger entry, each ending in "\n"
HeaderLine(tx) ==
  tx.date \o <<" ">> \o tx.payee
  \o (IF "comment" \in DOMAIN tx /\ tx.comment # <<>>
        THEN <<" ", " ", ";", " ">> \o tx.comment ELSE <<>>)
  \o <<"\n">>

BalanceText(tx, locale, currency) ==
  IF "balance" \in DOMAIN tx /\ NumberTruthy(tx.balance)
    THEN <<" ", "=", " ">>
         \o padStart(currencyString(tx.balance, locale, currency), AmountWidth)
    ELSE <<>>

account1AmountSameSign(tx, locale, currency) ==
  currencyString(tx.amount, locale, currency)

account1Amount(tx, locale, currency) ==
  currencyString(Negate(tx.amount), locale, currency)

account2Amount(tx, locale, currency) ==
  currencyString(tx.amount, locale, currency)

Posting1Line(tx, locale, currency) ==
  Spaces(4) \o padEnd(tx.account1, AccountWidth)
  \o padStart(account1Amount(tx, locale, currency), AmountWidth)
  \o BalanceText(tx, locale, currency) \o <<"\n">>

Posting2Line(tx, locale, currency) ==
  Spaces(4) \o padEnd(tx.account2, AccountWidth)
  \o padStart(account2Amount(tx, locale, currency), AmountWidth) \o <<"\n">>

plainText(tx, locale, currency) ==
  HeaderLine(tx) \o Posting1Line(tx, locale, currency)
  \o Posting2Line(tx, locale, currency)

-----------------------------------------------------------------------------
(* Collaborators of main: papaparse, luxon, json-logic-js, JSON.           *)

\* Papa.parse(txString, {skipEmptyLines, header, transformHeader}): a CSV is
\* the sequence of its data rows, a row the sequence of its cells; column i is
\* named rules.fields[i]; the header row has one column for each of
\* rules.fields, and a row with another number of cells is reported in errors
PapaData(txRows, fields) ==
  [i \in 1..Len(txRows) |->
     [j \in 1..(IF Len(txRows[i]) < Len(fields) THEN Len(txRows[i]) ELSE Len(fields))
        |-> <<fields[j], txRows[i][j]>>]]

PapaErrors(txRows, fields) == {i \in 1..Len(txRows) : Len(txRows[i]) # Len(fields)}

\* JSON.stringify of a string: quoted, with quote and backslash escaped
RECURSIVE JSONEscape(_)
JSONEscape(s) ==
  IF s = <<>> THEN <<>>
  ELSE (IF Head(s) \in {"\"", "\\"} THEN <<"\\", Head(s)>> ELSE <<Head(s)>>)
       \o JSONEscape(Tail(s))

JSONString(s) == <<"\"">> \o JSONEscape(s) \o <<"\"">>

RECURSIVE JSONMembers(_)
JSONMembers(o) ==
  IF o = <<>> THEN <<>>
  ELSE JSONString(o[1][1]) \o <<":">> \o JSONString(o[1][2])
       \o (IF Len(o) > 1 THEN <<",">> ELSE <<>>) \o JSONMembers(Tail(o))

\* JSON.stringify of a parsed row
JSONstringify(o) == <<"{">> \o JSONMembers(o) \o <<"}">>

Null == <<"null">>

LeapYear(y) == (y % 4 = 0 /\ y % 100 # 0) \/ y % 400 = 0

DaysInMonth(y, m) ==
  IF m = 2 THEN (IF LeapYear(y) THEN 29 ELSE 28)
  ELSE IF m \in {4, 6, 9, 11} THEN 30 ELSE 31

\* DateTime.fromFormat(text, "MM/dd/yyyy", {zone}).toISODate(): the ISO date,
\* or null when the text does not match the format or names no calendar day
fromFormatToISODate(text) ==
  IF /\ Len(text) = 10
     /\ text[3] = "/" /\ text[6] = "/"
     /\ \A i \in {1, 2, 4, 5, 7, 8, 9, 10} : text[i] \in DigitSet
    THEN
      LET m == DigitsValue(SubSeq(text, 1, 2))
          d == DigitsValue(SubSeq(text, 4, 5))
          y == DigitsValue(SubSeq(text, 7, 10))
      IN IF m \in 1..12 /\ d \in 1..DaysInMonth(y, m)
           THEN SubSeq(text, 7, 10) \o <<"-">> \o SubSeq(text, 1, 2)
                \o <<"-">> \o SubSeq(text, 4, 5)
           ELSE Null
    ELSE Null

\* DateTime.fromFormat throws InvalidArgumentError when the text is undefined
fromFormatThrows(tx) == ~HasKey(tx, K_date)

\* jsonLogic.apply(rule, data) for the rules of the rule files: the custom
\* "contains" operation of index.js (a regular expression of plain
\* characters tested against a field), "==" on a field, and the literals
jsonLogicApply(rule, data) ==
  IF rule.op = "contains" THEN Includes(data[rule.var], rule.pattern)
  ELSE IF rule.op = "==" THEN data[rule.var] = rule.pattern
  ELSE rule.op = "true"

\* Object.assign(target, source)
ObjectAssign(target, source) ==
  [k \in DOMAIN target \cup DOMAIN source |->
     IF k \in DOMAIN source THEN source[k] ELSE target[k]]

-----------------------------------------------------------------------------
(* src/src/index.js: the steps of main as functions of its inputs.         *)

PENDING == <<"P", "E", "N", "D", "I", "N", "G">>

noReverse(data) == data

\* const reversed = parsed.data.reverse()
Reverse(data) == [i \in 1..Len(data) |-> data[Len(data) + 1 - i]]

\* reversed.findIndex((tx) => JSON.stringify(tx) === latestTx), counted from
\* 1, and 0 for the -1 of findIndex; latestTx is undefined when the marker
\* file could not be read
latestTxIndexOf(rev, latestTx) ==
  LET hits == {i \in 1..Len(rev) : latestTx.exists /\ JSONstringify(rev[i]) = latestTx.text}
  IN IF hits = {} THEN 0 ELSE CHOOSE i \in hits : \A j \in hits : i <= j

sliceFromIndex(rev, idx) ==
  IF idx >= 1 THEN SubSeq(rev, idx, Len(rev)) ELSE rev

\* latestTxIndex >= 0 ? reversed.slice(latestTxIndex + 1) : reversed
sliceAfter(rev, idx) ==
  IF idx >= 1 THEN SubSeq(rev, idx + 1, Len(rev)) ELSE rev

exactPendingKept(tx) ==
  ~HasKey(tx, K_date) \/ Get(tx, K_date) # PENDING

\* the callback of toBeImported.filter: TRUE when the row is kept
pendingFilterKeeps(tx) ==
  IF ~FieldTruthy(tx, K_date) THEN TRUE
  ELSE ~startsWith(toUpperCase(trim(Get(tx, K_date))), PENDING)

filterPending(window) == SelectSeq(window, pendingFilterKeeps)

\* the null a map callback returns
NullItem == [null |-> TRUE]

\* the first map callback: null for an unparseable date, else the
\* transformed transaction with the original row
transformOne(originalTx, rules) ==
  LET isoDate == fromFormatToISODate(Get(originalTx, K_date))
      base    == [date        |-> isoDate,
                  description |-> trim(Get(originalTx, K_description)),
                  amount      |-> parseAmount(originalTx, rules.locale, rules.currency)]
  IN IF isoDate = Null THEN NullItem
     ELSE [transformed |->
             IF FieldTruthy(originalTx, K_balance)
               THEN ObjectAssign(base,
                      [balance |-> parseCurrencyString(Get(originalTx, K_balance),
                                                       rules.locale, rules.currency)])
               ELSE base,
           original |-> originalTx]

\* what makes the first map callback throw: luxon given undefined, trim of
\* an undefined description, Intl.NumberFormat given a malformed currency
transformThrows(originalTx, rules) ==
  \/ fromFormatThrows(originalTx)
  \/ /\ fromFormatToISODate(Get(originalTx, K_date)) # Null
     /\ \/ ~HasKey(originalTx, K_description)
        \/ /\ ~WellFormedCurrency(rules.currency)
           /\ \E k \in {K_amount, K_amount_in, K_amount_out, K_balance} :
                FieldTruthy(originalTx, k)

\* rules.transformers.forEach: every transformer is tried against the
\* transformed transaction, a matching one is merged into the output
RECURSIVE firstMatchOnly(_, _, _)
firstMatchOnly(output, transformed, transformers) ==
  IF transformers = <<>> THEN output
  ELSE IF jsonLogicApply(Head(transformers).rule, transformed)
    THEN ObjectAssign(output, Head(transformers).newValues)
    ELSE firstMatchOnly(output, transformed, Tail(transformers))

RECURSIVE applyTransformers(_, _, _)
applyTransformers(output, transformed, transformers) ==
  IF transformers = <<>> THEN output
  ELSE applyTransformers(
         IF jsonLogicApply(Head(transformers).rule, transformed)
           THEN ObjectAssign(output, Head(transformers).newValues)
           ELSE output,
         transformed, Tail(transformers))

\* the second map callback
enrich(transformed, rules) ==
  applyTransformers(
    ObjectAssign(transformed, [payee    |-> transformed.description,
                               account1 |-> rules.account1,
                               account2 |-> rules.account2]),
    transformed, rules.transformers)

\* filteredTransactions.map(...).filter(item => item !== null).map(...)
transformAll(filtered, rules) ==
  LET first == [i \in 1..Len(filtered) |-> transformOne(filtered[i], rules)]
      kept  == SelectSeq(first, LAMBDA item : item # NullItem)
  IN [i \in 1..Len(kept) |->
        [transformed |-> enrich(kept[i].transformed, rules),
         original    |-> kept[i].original]]

\* transformed.reduce((prev, curr) => prev + plainText(curr, ...), "")
RECURSIVE renderAll(_, _)
renderAll(items, rules) ==
  IF items = <<>> THEN <<>>
  ELSE plainText(Head(items).transformed, rules.locale, rules.currency)
       \o renderAll(Tail(items), rules)

markerOfLastFiltered(items, filtered) ==
  JSONstringify(filtered[Len(filtered)])

\* JSON.stringify(lastTransformed.original)
markerOfLastTransformed(items, filtered) ==
  JSONstringify(items[Len(items)].original)

-----------------------------------------------------------------------------
(* The inputs of the runs: rule files and CSV exports.                     *)

T_coffee ==
  [rule      |-> [op |-> "contains", var |-> "description", pattern |-> <<"C", "o", "f", "f", "e", "e">>],
   newValues |-> [account2 |-> <<"E", "x", "p", "e", "n", "s", "e", "s", ":", "C", "o", "f", "f", "e", "e">>]]

T_fee ==
  [rule      |-> [op |-> "==", var |-> "description", pattern |-> <<"F", "e", "e">>],
   newValues |-> [comment |-> <<"b", "a", "n", "k">>]]

\* a rule file with a date column
RulesA ==
  [fields       |-> <<K_date, K_description, K_amount>>,
   locale       |-> enUS,
   currency     |-> USD,
   account1     |-> <<"A", "s", "s", "e", "t", "s", ":", "C", "h", "e", "c", "k", "i", "n", "g">>,
   account2     |-> <<"E", "x", "p", "e", "n", "s", "e", "s", ":", "U", "n", "k", "n", "o", "w", "n">>,
   transformers |-> <<T_coffee, T_fee>>]

\* a rule file that names no column "date"
RulesB ==
  [fields       |-> <<K_posted, K_description, K_amount>>,
   locale       |-> deDE,
   currency     |-> EUR,
   account1     |-> <<"A", "s", "s", "e", "t", "s", ":", "C", "h", "e", "c", "k", "i", "n", "g">>,
   account2     |-> <<"E", "x", "p", "e", "n", "s", "e", "s", ":", "U", "n", "k", "n", "o", "w", "n">>,
   transformers |-> <<>>]

D_0310 == <<"0", "3", "/", "1", "0", "/", "2", "0", "2", "4">>

D_0311 == <<"0", "3", "/", "1", "1", "/", "2", "0", "2", "4">>

\* the rows of an export, as cells: date, description, amount
RowCoffee == <<D_0310, <<"C", "o", "f", "f", "e", "e">>, <<"$", "5", ".", "0", "0">>>>

RowFee == <<D_0311, <<"F", "e", "e">>, <<"-", "1", ".", "5", "0">>>>

RowPending == <<<<"P", "E", "N", "D", "I", "N", "G", " ", "-", " ", "0", "3", "/", "1", "2", "/", "2", "0", "2", "4">>, <<"C", "o", "f", "f", "e", "e">>, <<"$", "5", ".", "0", "0">>>>

RowEmptyDate == <<<<>>, <<"F", "e", "e">>, <<"-", "1", ".", "5", "0">>>>

\* a row with a cell too few: a FieldMismatch error of papaparse
RowShort == <<D_0310, <<"F", "e", "e">>>>

\* RowCoffee as an earlier export had it, with a space after the description
RowCoffeeOld == <<D_0310, <<"C", "o", "f", "f", "e", "e", " ">>, <<"$", "5", ".", "0", "0">>>>

Rows == {RowCoffee, RowFee, RowPending, RowEmptyDate}

RECURSIVE SeqsUpTo(_, _)
SeqsUpTo(S, n) ==
  IF n = 0 THEN {<<>>}
  ELSE LET shorter == SeqsUpTo(S, n - 1)
       IN shorter \cup {Append(q, x) : q \in {r \in shorter : Len(r) = n - 1}, x \in S}

\* exports papaparse reports an error for
MalformedExports == {<<RowShort>>, <<RowCoffee, RowShort>>}

\* the exports: the newest row first when the institution keeps its order
Exports == SeqsUpTo(Rows, MaxRows) \cup MalformedExports

NoMarker == [exists |-> FALSE, text |-> <<>>]

MarkerOf(text) == [exists |-> TRUE, text |-> text]

\* the marker files a first run can find: none, or the row an earlier run
\* of the same rule file wrote
MarkerFiles(rules) ==
  {NoMarker}
  \cup {MarkerOf(JSONstringify(PapaData(<<r>>, rules.fields)[1])) :
          r \in {RowCoffee, RowFee, RowCoffeeOld}}

-----------------------------------------------------------------------------
(* The state: the files main reads and writes, and the position and the    *)
(* constants of the run of main in progress.                               *)

VARIABLES
  marker,                   \* the ".latest" file: [exists, text]
  journal,                  \* the text of the journal file
  stdout,                   \* what the run has printed
  rules,                    \* the parsed rules file
  pc,                       \* "idle", "computed", "appended", "done", "aborted"
  runs,                     \* runs of main started on a chosen export
  thrown,                   \* what main threw: "none", "csv", "transform", "append"
  rerun,                    \* "no", or how the run this one repeats ended
  csv,                      \* the data rows of the export of the run
  journalFilePath,          \* the run was given a journal file
  reversed,
  toBeImported,
  filteredTransactions,
  transformedWithOriginals,
  plaintextTransactions

vars == <<marker, journal, stdout, rules, pc, thrown, runs, rerun, csv, journalFilePath,
          reversed, toBeImported, filteredTransactions, transformedWithOriginals,
          plaintextTransactions>>

files == <<marker, journal, rules>>

locals == <<reversed, toBeImported, filteredTransactions,
            transformedWithOriginals, plaintextTransactions>>

NoRun ==
  /\ pc = "idle"
  /\ thrown = "none"
  /\ rerun = "no"
  /\ csv = <<>>
  /\ journalFilePath = FALSE
  /\ stdout = <<>>
  /\ reversed = <<>>
  /\ toBeImported = <<>>
  /\ filteredTransactions = <<>>
  /\ transformedWithOriginals = <<>>
  /\ plaintextTransactions = <<>>

InitWith(ruleFiles) ==
  /\ rules \in ruleFiles
  /\ marker \in MarkerFiles(rules)
  /\ journal = <<>>
  /\ runs = 0
  /\ NoRun

Init == InitWith({RulesA})

\* main from its first line to the end of the reduce: everything between the
\* reads and the first write.  A throw leaves pc = "aborted".
Begin(txRows, jp, again) ==
  LET errors   == PapaErrors(txRows, rules.fields)
      rev      == Reverse(PapaData(txRows, rules.fields))
      window   == sliceAfter(rev, latestTxIndexOf(rev, marker))
      filtered == filterPending(window)
      throws   == \E i \in 1..Len(filtered) : transformThrows(filtered[i], rules)
      items    == transformAll(filtered, rules)
  IN /\ csv' = txRows
     /\ journalFilePath' = jp
     /\ rerun' = again
     /\ stdout' = <<>>
     /\ IF errors # {}
          THEN /\ pc' = "aborted"
               /\ thrown' = "csv"
               /\ reversed' = <<>>
               /\ toBeImported' = <<>>
               /\ filteredTransactions' = <<>>
               /\ transformedWithOriginals' = <<>>
               /\ plaintextTransactions' = <<>>
        ELSE IF throws
          THEN /\ pc' = "aborted"
               /\ thrown' = "transform"
               /\ reversed' = rev
               /\ toBeImported' = window
               /\ filteredTransactions' = filtered
               /\ transformedWithOriginals' = <<>>
               /\ plaintextTransactions' = <<>>
        ELSE /\ pc' = "computed"
             /\ thrown' = "none"
             /\ reversed' = rev
             /\ toBeImported' = window
             /\ filteredTransactions' = filtered
             /\ transformedWithOriginals' = items
             /\ plaintextTransactions' = renderAll(items, rules)
     /\ UNCHANGED files

\* main(txFilePath, rulesFilePath, journalFilePath) on an export
MainOn(exports, maxRuns) ==
  /\ pc = "idle"
  /\ runs < maxRuns
  /\ runs' = runs + 1
  /\ \E txRows \in exports, jp \in BOOLEAN : Begin(txRows, jp, "no")

Main == MainOn(Exports, MaxRuns)

\* the same command line again, after a run with a journal file path that
\* ended or was cut short
MainAgain ==
  /\ pc \in {"done", "aborted"}
  /\ journalFilePath
  /\ rerun = "no"
  /\ Begin(csv, TRUE, pc)
  /\ UNCHANGED runs

\* console.log(plaintextTransactions)
ConsoleLog ==
  /\ pc = "computed"
  /\ ~journalFilePath
  /\ stdout' = plaintextTransactions \o <<"\n">>
  /\ pc' = "done"
  /\ UNCHANGED <<files, thrown, runs, rerun, csv, journalFilePath, locals>>

\* await appendFile(journalFilePath, plaintextTransactions) resolves
AppendFile ==
  /\ pc = "computed"
  /\ journalFilePath
  /\ journal' = journal \o plaintextTransactions
  /\ pc' = "appended"
  /\ UNCHANGED <<marker, rules, stdout, thrown, runs, rerun, csv, journalFilePath, locals>>

\* await appendFile rejects: main throws
AppendFileFails ==
  /\ pc = "computed"
  /\ journalFilePath
  /\ pc' = "aborted"
  /\ thrown' = "append"
  /\ UNCHANGED <<files, stdout, runs, rerun, csv, journalFilePath, locals>>

markerWrittenAtOnce(at) == at \in {"computed", "appended"}

\* the place in main of writeFile(latestFilePath, ...): after the append
markerWrittenAt(at) == at = "appended"

\* if (transformedWithOriginals.length > 0) await writeFile(latestFilePath, ...)
WriteMarker ==
  /\ markerWrittenAt(pc)
  /\ journalFilePath
  /\ marker' = IF Len(transformedWithOriginals) > 0
                 THEN MarkerOf(markerOfLastTransformed(transformedWithOriginals,
                                                       filteredTransactions))
                 ELSE marker
  /\ pc' = "done"
  /\ UNCHANGED <<journal, rules, stdout, thrown, runs, rerun, csv, journalFilePath, locals>>

\* the process is killed between two writes
Crash ==
  /\ pc \in {"computed", "appended"}
  /\ pc' = "aborted"
  /\ UNCHANGED <<files, stdout, thrown, runs, rerun, csv, journalFilePath, locals>>

\* the process ends
Exit ==
  /\ pc \in {"done", "aborted"}
  /\ pc' = "idle"
  /\ thrown' = "none"
  /\ rerun' = "no"
  /\ csv' = <<>>
  /\ journalFilePath' = FALSE
  /\ stdout' = <<>>
  /\ reversed' = <<>>
  /\ toBeImported' = <<>>
  /\ filteredTransactions' = <<>>
  /\ transformedWithOriginals' = <<>>
  /\ plaintextTransactions' = <<>>
  /\ UNCHANGED <<files, runs>>

Next ==
  \/ Main
  \/ MainAgain
  \/ ConsoleLog
  \/ AppendFile
  \/ AppendFileFails
  \/ WriteMarker
  \/ Crash
  \/ Exit

Spec == Init /\ [][Next]_vars

-----------------------------------------------------------------------------
(* One run (and its repetition) on other families of inputs: the forms of  *)
(* the date column, the shapes of the amount columns, the lists of         *)
(* transformers.                                                           *)

Step ==
  \/ MainAgain
  \/ ConsoleLog
  \/ AppendFile
  \/ AppendFileFails
  \/ WriteMarker
  \/ Crash
  \/ Exit

InitFirstRun(ruleFiles) ==
  /\ rules \in ruleFiles
  /\ marker = NoMarker
  /\ journal = <<>>
  /\ runs = 0
  /\ NoRun

\* the texts of the date column
DateTexts ==
  {PENDING,
   <<"P", "E", "N", "D", "I", "N", "G", " ", "-", " ", "0", "3", "/", "1", "0", "/", "2", "0", "2", "4">>,
   <<" ", "p", "e", "n", "d", "i", "n", "g", " ">>,
   <<"P", "e", "n", "d", "i", "n", "g", " ", "-", " ", "0", "3", "/", "1", "1", "/", "2", "0", "2", "4">>,
   D_0310,
   D_0311,
   <<>>,
   <<"0", "2", "/", "3", "0", "/", "2", "0", "2", "4">>,
   <<"3", "/", "1", "0", "/", "2", "0", "2", "4">>}

DateRows == {<<d, <<"C", "o", "f", "f", "e", "e">>, <<"$", "5", ".", "0", "0">>>> : d \in DateTexts}

DateExports == SeqsUpTo(DateRows, MaxRows)

MainDates == MainOn(DateExports, 1)

NextDates == MainDates \/ Step

SpecDates == InitFirstRun({RulesA, RulesB}) /\ [][NextDates]_vars

\* rule files of an institution with a signed column, two unsigned columns
\* and a balance column
RulesUS ==
  [fields       |-> <<K_date, K_description, K_amount, K_amount_in, K_amount_out, K_balance>>,
   locale       |-> enUS,
   currency     |-> USD,
   account1     |-> <<"A", "s", "s", "e", "t", "s", ":", "C", "h", "e", "c", "k", "i", "n", "g">>,
   account2     |-> <<"E", "x", "p", "e", "n", "s", "e", "s", ":", "U", "n", "k", "n", "o", "w", "n">>,
   transformers |-> <<>>]

RulesDE == [RulesUS EXCEPT !.locale = deDE, !.currency = EUR]

\* the texts of an amount column
AmountTexts ==
  {<<>>,
   <<"$", "5", ".", "0", "0">>,
   <<"-", "1", ".", "5", "0">>,
   <<"1", ",", "2", "3", "4", ".", "5", "6">>,
   <<"a", "b", "c">>,
   <<"0">>,
   <<"5", "-">>}

AmountExports ==
  {<< <<D_0310, <<"C", "o", "f", "f", "e", "e">>, a, i, o, b>> >> :
     a \in AmountTexts, i \in AmountTexts, o \in AmountTexts, b \in {<<>>, <<"$", "1", "0", ".", "0", "0">>}}

MainAmounts == MainOn(AmountExports, 1)

NextAmounts == MainAmounts \/ Step

SpecAmounts == InitFirstRun({RulesUS, RulesDE}) /\ [][NextAmounts]_vars

T_cash ==
  [rule      |-> [op |-> "contains", var |-> "description", pattern |-> <<"C", "o", "f", "f", "e", "e">>],
   newValues |-> [account1 |-> <<"A", "s", "s", "e", "t", "s", ":", "C", "a", "s", "h">>]]

T_note ==
  [rule      |-> [op |-> "true"],
   newValues |-> [comment |-> <<"n", "o", "t", "e">>]]

T_cafe ==
  [rule      |-> [op |-> "contains", var |-> "description", pattern |-> <<"o", "f", "f">>],
   newValues |-> [account1 |-> <<"L", "i", "a", "b", "i", "l", "i", "t", "i", "e", "s", ":", "C", "a", "r", "d">>, payee |-> <<"C", "a", "f", "e">>, comment |-> <<"c", "a", "f", "e">>]]

T_bank ==
  [rule      |-> [op |-> "==", var |-> "description", pattern |-> <<"F", "e", "e">>],
   newValues |-> [payee |-> <<"B", "a", "n", "k">>, account2 |-> <<"E", "x", "p", "e", "n", "s", "e", "s", ":", "F", "e", "e", "s">>]]

Transformers == {T_cash, T_note, T_cafe, T_bank}

RuleFilesOfTransformers ==
  {[RulesA EXCEPT !.transformers = ts] : ts \in SeqsUpTo(Transformers, MaxRules)}

RuleExports == {<<RowCoffee>>, <<RowFee>>, <<RowCoffee, RowFee>>}

MainRules == MainOn(RuleExports, 1)

NextRules == MainRules \/ Step

SpecRules == InitFirstRun(RuleFilesOfTransformers) /\ [][NextRules]_vars

-----------------------------------------------------------------------------
(* Properties of the import pipeline, checked under Spec.                  *)

\* a row that is neither PENDING nor unparseable: it has a date, the date
\* trimmed and in upper case does not start with PENDING, and it parses
RowSurvives(tx) ==
  /\ HasKey(tx, K_date)
  /\ ~startsWith(toUpperCase(trim(Get(tx, K_date))), PENDING)
  /\ fromFormatToISODate(Get(tx, K_date)) # Null

Survivors(window) == SelectSeq(window, RowSurvives)

EndsWith(s, t) ==
  Len(s) >= Len(t) /\ SubSeq(s, Len(s) - Len(t) + 1, Len(s)) = t

\* the run got as far as its writes
Computed == pc \in {"computed", "appended", "done"}

\* C1 (as claimed).  Idempotence: a second append-mode run on the same CSV and
\* rules, started after the first run appended its blocks and wrote its
\* marker, appends no ledger block.
C1_SecondRunAppendsNothing ==
  (rerun = "done" /\ pc = "appended") => plaintextTransactions = <<>>

\* C2.  Marker invariant: the step that writes the marker writes the
\* serialized raw row of the last row of the import window that is neither
\* PENDING nor unparseable (and leaves the marker alone when there is none);
\* the marker written is never the serialization of a row of the window that
\* was dropped.
C2_MarkerIsLastSurvivor ==
  [][(pc = "appended" /\ pc' = "done") =>
       LET s == Survivors(toBeImported)
       IN /\ IF s = <<>> THEN marker' = marker
             ELSE marker' = MarkerOf(JSONstringify(s[Len(s)]))
          /\ \A i \in 1..Len(toBeImported) :
               (marker' # marker /\ ~RowSurvives(toBeImported[i]))
                 => marker'.text # JSONstringify(toBeImported[i])]_vars

\* the chronologically last row of the window was dropped and the marker is
\* the surviving row before it
C2_Witness ==
  /\ pc = "done"
  /\ journalFilePath
  /\ Len(toBeImported) >= 2
  /\ ~RowSurvives(toBeImported[Len(toBeImported)])
  /\ RowSurvives(toBeImported[Len(toBeImported) - 1])
  /\ marker = MarkerOf(JSONstringify(toBeImported[Len(toBeImported) - 1]))
  /\ marker.text # JSONstringify(reversed[Len(reversed)])

\* C3.  Marker write ordering: the marker changes only in a run that was
\* given a journal path and has thrown nothing, in the step after its append,
\* when the journal already ends with the text of the run and so with the
\* entry of the row the marker names; a run that prints, whose append fails,
\* that aborts or is killed leaves the marker as it was.
C3_MarkerOnlyAfterAppend ==
  [][marker' # marker =>
       /\ journalFilePath
       /\ thrown = "none"
       /\ pc = "appended"
       /\ pc' = "done"
       /\ journal' = journal
       /\ transformedWithOriginals # <<>>
       /\ EndsWith(journal, plaintextTransactions)
       /\ EndsWith(journal,
            plainText(transformedWithOriginals[Len(transformedWithOriginals)].transformed,
                      rules.locale, rules.currency))
       /\ marker'.text =
            JSONstringify(transformedWithOriginals[Len(transformedWithOriginals)].original)]_vars

\* a run was killed between its append and its marker write, and the same
\* command appended the same entries a second time
C3_Witness ==
  /\ rerun = "aborted"
  /\ pc = "appended"
  /\ plaintextTransactions # <<>>
  /\ journal = plaintextTransactions \o plaintextTransactions
  /\ ~marker.exists

\* C4.  Import window: reversed is the rows of the CSV in reverse order; when
\* the marker file exists and some row serializes to exactly its text, the
\* window is every row strictly after the first such row, and otherwise
\* (no marker, or no row equal to it) the window is all of reversed.
C4_ImportWindow ==
  pc \in {"computed", "appended"} =>
    LET data == PapaData(csv, rules.fields)
        hits == {i \in 1..Len(reversed) :
                   marker.exists /\ JSONstringify(reversed[i]) = marker.text}
    IN /\ Len(reversed) = Len(data)
       /\ \A i \in 1..Len(data) : reversed[i] = data[Len(data) + 1 - i]
       /\ IF hits = {} THEN toBeImported = reversed
          ELSE \E i \in hits :
                 /\ \A j \in hits : i <= j
                 /\ Len(toBeImported) = Len(reversed) - i
                 /\ \A k \in 1..Len(toBeImported) : toBeImported[k] = reversed[i + k]

\* a marker that differs from a row of the CSV by a trailing space only:
\* the whole list is imported
C4_WitnessStale ==
  /\ pc = "computed"
  /\ marker = MarkerOf(JSONstringify(PapaData(<<RowCoffeeOld>>, rules.fields)[1]))
  /\ \E i \in 1..Len(csv) : csv[i] = RowCoffee
  /\ toBeImported = reversed
  /\ Len(toBeImported) = MaxRows

\* a marker equal to a row that is not the last: the rows after it
C4_Witness ==
  /\ pc = "computed"
  /\ marker.exists
  /\ Len(reversed) = MaxRows
  /\ JSONstringify(reversed[1]) = marker.text
  /\ Len(toBeImported) = MaxRows - 1

\* the ISO date of a rendered entry as a number, yyyymmdd
DateKey(iso) == DigitsValue(SelectSeq(iso, LAMBDA c : c \in DigitSet))

Ascending(items) ==
  \A i, j \in 1..Len(items) :
    i < j => DateKey(items[i].transformed.date) <= DateKey(items[j].transformed.date)

\* C5 (as claimed).  For every input CSV the rendered entries are in ascending
\* order of the parsed date.
C5_AlwaysAscending ==
  Computed => Ascending(transformedWithOriginals)

\* the rows of the CSV are listed latest first, as far as their dates parse
LatestFirst(rows) ==
  \A i, j \in 1..Len(rows) :
    (i < j /\ RowSurvives(rows[i]) /\ RowSurvives(rows[j]))
      => DateKey(fromFormatToISODate(Get(rows[i], K_date)))
           >= DateKey(fromFormatToISODate(Get(rows[j], K_date)))

\* the lines of a text, without their "\n"
RECURSIVE Lines(_)
Lines(text) ==
  IF text = <<>> THEN <<>>
  ELSE LET n == CHOOSE i \in 1..Len(text) :
                  text[i] = "\n" /\ \A j \in 1..(i - 1) : text[j] # "\n"
       IN <<SubSeq(text, 1, n - 1)>> \o Lines(SubSeq(text, n + 1, Len(text)))

\* C5 (amended).  The rendered entries are the surviving rows of the import
\* window in the reverse of the CSV's row order, one entry of three lines
\* for each, none reordered, repeated or merged; they are in ascending order
\* of the parsed date whenever the CSV lists its rows latest first.
C5_ReverseOfCsvOrder ==
  Computed =>
    LET data  == PapaData(csv, rules.fields)
        kept  == Survivors(toBeImported)
        lines == Lines(plaintextTransactions)
    IN /\ \A i \in 1..Len(reversed) : reversed[i] = data[Len(data) + 1 - i]
       /\ Len(transformedWithOriginals) = Len(kept)
       /\ Len(lines) = 3 * Len(kept)
       /\ \A i \in 1..Len(kept) :
            /\ transformedWithOriginals[i].original = kept[i]
            /\ startsWith(lines[3 * i - 2],
                          fromFormatToISODate(Get(kept[i], K_date)) \o <<" ">>)
       /\ LatestFirst(data) => Ascending(transformedWithOriginals)

\* two entries rendered from a CSV that lists its rows latest first
C5_Witness ==
  /\ pc = "computed"
  /\ Len(transformedWithOriginals) = 2
  /\ transformedWithOriginals[1].original # transformedWithOriginals[2].original
  /\ LatestFirst(PapaData(csv, rules.fields))

-----------------------------------------------------------------------------
(* Properties of the filters, checked under SpecDates.                     *)

\* the date texts that, trimmed and in upper case, start with PENDING
PendingTexts ==
  {PENDING,
   <<"P", "E", "N", "D", "I", "N", "G", " ", "-", " ", "0", "3", "/", "1", "0", "/", "2", "0", "2", "4">>,
   <<" ", "p", "e", "n", "d", "i", "n", "g", " ">>,
   <<"P", "e", "n", "d", "i", "n", "g", " ", "-", " ", "0", "3", "/", "1", "1", "/", "2", "0", "2", "4">>}

IsPendingRow(tx) == HasKey(tx, K_date) /\ Get(tx, K_date) \in PendingTexts

\* C6.  PENDING filtering: the rows the filter keeps are the rows of the
\* import window whose date is not one of the PENDING forms, in their order
\* (so a row with any other date is not removed by it), and no row with a
\* PENDING form is rendered.
C6_PendingFiltered ==
  (pc # "idle" /\ thrown # "csv") =>
    /\ filteredTransactions = SelectSeq(toBeImported, LAMBDA tx : ~IsPendingRow(tx))
    /\ \A i \in 1..Len(transformedWithOriginals) :
         ~IsPendingRow(transformedWithOriginals[i].original)
    /\ Len(Lines(plaintextTransactions)) <= 3 * Len(filteredTransactions)

\* a window of a lower-case, padded PENDING row and a row that is kept
C6_Witness ==
  /\ pc = "computed"
  /\ Len(toBeImported) = 2
  /\ Get(toBeImported[1], K_date) = <<" ", "p", "e", "n", "d", "i", "n", "g", " ">>
  /\ filteredTransactions = <<toBeImported[2]>>
  /\ Len(transformedWithOriginals) = 1

\* C7 (as claimed).  Unparseable dates: a run whose CSV parsed does not abort
\* over a row whose date is missing, empty or unparseable; it renders the
\* rows of the window that are neither PENDING nor unparseable, each with an
\* ISO date.
C7_UnparseableRowsDropped ==
  (pc # "idle" /\ thrown # "csv") =>
    /\ thrown # "transform"
    /\ Computed =>
         LET kept == Survivors(toBeImported)
         IN /\ Len(transformedWithOriginals) = Len(kept)
            /\ \A i \in 1..Len(kept) :
                 /\ transformedWithOriginals[i].original = kept[i]
                 /\ transformedWithOriginals[i].transformed.date # Null

-----------------------------------------------------------------------------
(* Properties of the amounts, checked under SpecAmounts.                   *)

\* the amount printed on the posting line of an entry: the text in the
\* amount column, without its padding
PostedAmount(line) ==
  trimStart(SubSeq(line, 4 + AccountWidth + 1, 4 + AccountWidth + AmountWidth))

\* the number a formatted amount denotes: currency symbol and grouping
\* removed, decimal mark read as "."
ReadAmount(text, locale) ==
  LET kept == SelectSeq(text, LAMBDA c : c \in DigitSet \cup {"-", DecimalMark(locale), "N", "a"})
  IN ToNumber([i \in 1..Len(kept) |->
                 IF kept[i] = DecimalMark(locale) THEN "." ELSE kept[i]])

\* C9.  Sign invariant: on every rendered entry the account1 line carries
\* -amount and the account2 line carries +amount: the two printed amounts
\* differ by the leading minus sign only, the account2 amount is negative
\* exactly when amount is, and read back they are -amount and amount (for an
\* amount of at most two decimals); an amount that is NaN prints as NaN on
\* both lines.
C9_SignInvariant ==
  Computed =>
    \A i \in 1..Len(transformedWithOriginals) :
      LET amount == transformedWithOriginals[i].transformed.amount
          lines  == Lines(plaintextTransactions)
          a1     == PostedAmount(lines[3 * i - 1])
          a2     == PostedAmount(lines[3 * i])
      IN IF amount.nan
           THEN a1 = a2 /\ ReadAmount(a1, rules.locale).nan
           ELSE /\ IF amount.neg THEN a2 = <<"-">> \o a1 ELSE a1 = <<"-">> \o a2
                /\ amount.scale <= 2 =>
                     /\ ReadAmount(a2, rules.locale) = amount
                     /\ ReadAmount(a1, rules.locale) = Negate(amount)

\* an entry of the amount-in shape: amount is negative, account1 gets the
\* positive text
C9_Witness ==
  /\ pc = "computed"
  /\ Len(transformedWithOriginals) = 1
  /\ ~FieldTruthy(transformedWithOriginals[1].original, K_amount)
  /\ transformedWithOriginals[1].transformed.amount = Num(TRUE, 5, 0)
  /\ PostedAmount(Lines(plaintextTransactions)[2]) = <<"$", "5", ".", "0", "0">>
  /\ PostedAmount(Lines(plaintextTransactions)[3]) = <<"-", "$", "5", ".", "0", "0">>

\* C10.  parseAmount precedence: the amount of a transaction is
\* parseCurrencyString(amount) when the amount column is not empty, else
\* -parseCurrencyString(amount-in) when that column is not empty, else
\* parseCurrencyString(amount-out) when that column is not empty, else 0.
C10_ParseAmountPrecedence ==
  Computed =>
    \A i \in 1..Len(transformedWithOriginals) :
      LET tx     == transformedWithOriginals[i].original
          amount == transformedWithOriginals[i].transformed.amount
          value(k) == parseCurrencyString(Get(tx, k), rules.locale, rules.currency)
      IN IF Get(tx, K_amount) # <<>> THEN amount = value(K_amount)
         ELSE IF Get(tx, K_amount_in) # <<>> THEN amount = Negate(value(K_amount_in))
         ELSE IF Get(tx, K_amount_out) # <<>> THEN amount = value(K_amount_out)
         ELSE amount = Zero

\* a row with no amount, an amount-in and another amount-out: the negated
\* amount-in is the amount
C10_Witness ==
  /\ pc = "computed"
  /\ Len(transformedWithOriginals) = 1
  /\ Get(transformedWithOriginals[1].original, K_amount) = <<>>
  /\ Get(transformedWithOriginals[1].original, K_amount_in) = <<"$", "5", ".", "0", "0">>
  /\ Get(transformedWithOriginals[1].original, K_amount_out) = <<"-", "1", ".", "5", "0">>
  /\ transformedWithOriginals[1].transformed.amount = Num(TRUE, 5, 0)

\* the text main hands to parseCurrencyString for the amount of a row: the
\* first of amount, amount-in, amount-out that is not empty
AmountSource(tx) ==
  IF Get(tx, K_amount) # <<>> THEN Get(tx, K_amount)
  ELSE IF Get(tx, K_amount_in) # <<>> THEN Get(tx, K_amount_in)
  ELSE Get(tx, K_amount_out)

\* a text with every character removed except digits, "-" and the decimal
\* separator of the locale, and the decimal separator turned into "."
Cleaned(text, locale) ==
  LET kept == SelectSeq(text, LAMBDA c : c \in DigitSet \cup {"-", DecimalMark(locale)})
  IN [i \in 1..Len(kept) |-> IF kept[i] = DecimalMark(locale) THEN "." ELSE kept[i]]

\* a valid number: an optional "-", then digits with at most one "." among
\* them, and at least one digit
ValidNumberText(s) ==
  LET body == IF s # <<>> /\ s[1] = "-" THEN SubSeq(s, 2, Len(s)) ELSE s
  IN /\ \A i \in 1..Len(body) : body[i] \in DigitSet \cup {"."}
     /\ Cardinality({i \in 1..Len(body) : body[i] = "."}) <= 1
     /\ \E i \in 1..Len(body) : body[i] \in DigitSet

\* C11 (as claimed).  parseCurrencyString error value: a text whose cleaned
\* form is not a valid number (a text without any digit among them) gives
\* NaN, never 0 or another finite number.
C11_NaNForNonNumbers ==
  Computed =>
    \A i \in 1..Len(transformedWithOriginals) :
      LET text == AmountSource(transformedWithOriginals[i].original)
      IN (text # <<>> /\ ~ValidNumberText(Cleaned(text, rules.locale)))
           => transformedWithOriginals[i].transformed.amount.nan

-----------------------------------------------------------------------------
(* Properties of the rule application, checked under SpecRules.            *)

EnrichedFields == {"payee", "account1", "account2", "comment"}

\* C8.  Cumulative rule application: every output field is the value given
\* by the last transformer of the list that matches the transaction and
\* names the field; with no such transformer payee is the description,
\* account1 and account2 are the defaults of the rules and there is no
\* comment.
C8_CumulativeRules ==
  Computed =>
    \A i \in 1..Len(transformedWithOriginals) :
      LET out  == transformedWithOriginals[i].transformed
          desc == trim(Get(transformedWithOriginals[i].original, K_description))
          ts   == rules.transformers
          initial == [payee |-> desc, account1 |-> rules.account1,
                      account2 |-> rules.account2]
      IN \A f \in EnrichedFields :
           LET setters == {k \in 1..Len(ts) :
                             /\ jsonLogicApply(ts[k].rule, [description |-> desc])
                             /\ f \in DOMAIN ts[k].newValues}
           IN IF setters = {}
                THEN IF f = "comment" THEN f \notin DOMAIN out ELSE out[f] = initial[f]
                ELSE \E k \in setters :
                       /\ \A j \in setters : j <= k
                       /\ f \in DOMAIN out
                       /\ out[f] = ts[k].newValues[f]

\* a matching transformer that sets account1 and comment, then a matching
\* one that sets only the comment, then one that does not match: account1
\* of the first, comment of the second
C8_Witness ==
  /\ pc = "computed"
  /\ rules.transformers = <<T_cafe, T_note, T_bank>>
  /\ Len(transformedWithOriginals) = 1
  /\ transformedWithOriginals[1].transformed.account1 = T_cafe.newValues.account1
  /\ transformedWithOriginals[1].transformed.comment = T_note.newValues.comment
  /\ transformedWithOriginals[1].transformed.account2 = rules.account2

-----------------------------------------------------------------------------
(* Posting lines of plainText under rule files whose account names are       *)
(* shorter than, as long as, and longer than the column plainText pads to.   *)

\* an account name of 49 characters and one of 52
AccountAtWidth ==
  <<"E", "x", "p", "e", "n", "s", "e", "s", ":", "H", "o", "u", "s", "e", "h", "o", "l", "d", ":", "U", "t", "i", "l", "i", "t", "i", "e", "s", ":", "E", "l", "e", "c", "t", "r", "i", "c", "i", "t", "y", ":", "P", "r", "o", "v", "i", "d", "e", "r">>

AccountOverWidth ==
  <<"E", "x", "p", "e", "n", "s", "e", "s", ":", "H", "o", "u", "s", "e", "h", "o", "l", "d", ":", "U", "t", "i", "l", "i", "t", "i", "e", "s", ":", "E", "l", "e", "c", "t", "r", "i", "c", "i", "t", "y", ":", "P", "r", "o", "v", "i", "d", "e", "r", ":", "Q", "1">>

LayoutAccounts == {RulesA.account1, RulesA.account2, AccountAtWidth, AccountOverWidth}

LayoutRuleFiles ==
  {[RulesA EXCEPT !.account1 = a1, !.account2 = a2, !.transformers = <<T_fee>>] :
     a1 \in LayoutAccounts \ {RulesA.account2}, a2 \in LayoutAccounts \ {RulesA.account1}}

\* a withdrawal whose amount is formatted in twelve characters
RowWire == <<<<"0", "3", "/", "1", "1", "/", "2", "0", "2", "4">>, <<"W", "i", "r", "e">>, <<"-", "1", "2", "3", "4", "5", "6", ".", "7", "8">>>>

LayoutExports == SeqsUpTo({RowCoffee, RowFee, RowWire}, MaxRows) \ {<<>>}

MainLayout == MainOn(LayoutExports, 1)

NextLayout == MainLayout \/ Step

SpecLayout == InitFirstRun(LayoutRuleFiles) /\ [][NextLayout]_vars

\* a posting line that starts with the indent, the account name, k spaces and
\* the amount
PostingStarts(line, account, k, amount) ==
  startsWith(line, Spaces(4) \o account \o Spaces(k) \o amount)

\* C12 (as claimed).  Posting-line layout: on both posting lines of every
\* entry the account name is followed by at least one space and then the
\* formatted amount, and the two amounts end in the same column, for all
\* lengths of the account names and of the amounts.
C12_PostingLayout ==
  Computed =>
    \A i \in 1..Len(transformedWithOriginals) :
      LET tx    == transformedWithOriginals[i].transformed
          lines == Lines(plaintextTransactions)
          line1 == lines[3 * i - 1]
          line2 == lines[3 * i]
          a1    == account1Amount(tx, rules.locale, rules.currency)
          a2    == account2Amount(tx, rules.locale, rules.currency)
      IN \E k1 \in 1..Len(line1), k2 \in 1..Len(line2) :
           /\ PostingStarts(line1, tx.account1, k1, a1)
           /\ PostingStarts(line2, tx.account2, k2, a2)
           /\ Len(tx.account1) + k1 + Len(a1) = Len(tx.account2) + k2 + Len(a2)

-----------------------------------------------------------------------------
(* A later run: main on a newer export of the same account, after a run     *)
(* that appended to the journal and wrote the marker.                       *)

\* a row that is pending on the day of RowFee, and the same row once settled
RowHold == <<<<"P", "E", "N", "D", "I", "N", "G", " ", "-", " ", "0", "3", "/", "1", "1", "/", "2", "0", "2", "4">>, <<"C", "o", "f", "f", "e", "e">>, <<"$", "5", ".", "0", "0">>>>

RowSettled == <<D_0311, <<"C", "o", "f", "f", "e", "e">>, <<"$", "5", ".", "0", "0">>>>

LaterExports == SeqsUpTo({RowFee, RowHold, RowSettled}, MaxRows + 1)

\* the command line again with another export, the marker and the journal
\* being those the run before left
MainLater ==
  /\ pc = "done"
  /\ journalFilePath
  /\ rerun = "no"
  /\ \E txRows \in LaterExports : Begin(txRows, TRUE, "later")
  /\ UNCHANGED runs

NextLater == MainOn(LaterExports, 1) \/ MainLater \/ Step

SpecLater == InitFirstRun({RulesA}) /\ [][NextLater]_vars

\* the rows of an export before its import window
BeforeWindow(rev, window) == Len(rev) - Len(window)

\* the positions, in chronological order, of the rows of the window that were
\* dropped before a row of the same window that survived
DroppedBeforeSurvivor(rev, window) ==
  {d \in (BeforeWindow(rev, window) + 1)..Len(rev) :
     /\ ~RowSurvives(rev[d])
     /\ \E m \in (d + 1)..Len(rev) : RowSurvives(rev[m])}

\* a newer export in which every row that survived is still where it was
SamePositions(older, newer) ==
  /\ Len(newer) >= Len(older)
  /\ \A p \in 1..Len(older) : RowSurvives(older[p]) => newer[p] = older[p]

\* C13 (as claimed).  Skipped-forever rows: when an append-mode run dropped a
\* row of its window before a row that survived, the marker it wrote is a row
\* after the dropped one, and in a later run whose export still holds a row
\* equal to the marker, with the surviving rows at their positions, the
\* position of the dropped row is outside the import window, so that the row
\* now at that position is never rendered.
C13_SkippedForever ==
  [][(pc = "done" /\ journalFilePath /\ rerun' = "later" /\ pc' = "computed"
      /\ latestTxIndexOf(reversed', marker) > 0
      /\ SamePositions(reversed, reversed'))
     => \A d \in DroppedBeforeSurvivor(reversed, toBeImported) :
          /\ \E m \in (d + 1)..Len(reversed) :
               marker = MarkerOf(JSONstringify(reversed[m]))
          /\ d <= BeforeWindow(reversed', toBeImported')]_vars

=============================================================================
